---------------------------- MODULE Spec2Model ----------------------------
(***************************************************************************)
(* A model of blob-utils: the blob codec (EncodeBlobs / DecodeBlob), the   *)
(* peer resolver (getMultiaddr / retrievePeerID), the chunked request      *)
(* client (sendBlobsSidecarsByRangeRequest / readChunkedBlobsSidecar),     *)
(* DownloadApp, the inbound stream handlers (setHandler) and the receipt   *)
(* polling of TxApp.                                                       *)
(*                                                                         *)
(* The specifications share the variables; each leaves the variables of    *)
(* the other parts at their idle values:                                   *)
(*   SpecCodec       the codec applied to every input of a bounded set     *)
(*   SpecResolve     one call of getMultiaddr                              *)
(*   SpecRequest     one call of sendBlobsSidecarsByRangeRequest           *)
(*   SpecRequestCtx  the same call under a context that may be cancelled   *)
(*   SpecDownload    one call of DownloadApp                               *)
(*   SpecInbound     the stream functions of inbound streams               *)
(*   SpecServe       the request interleaved with the stream functions     *)
(*   SpecRequestLive SpecRequest with every call returning                 *)
(*   SpecSetHandler  the stream function for any base topic                *)
(*   SpecTx          TxApp from the sending of the transaction on          *)
(***************************************************************************)
EXTENDS Integers, Sequences, FiniteSets, TLC

VARIABLES
    \* ---- codec
    data,       \* the input of EncodeBlobs
    blobs,      \* the result of EncodeBlobs(data)
    decoded,    \* DecodeBlob of each blob's flattened bytes, in blob order
    cpc,        \* "input" -> "encoded" -> "decoded" ("idle" outside SpecCodec)
    \* ---- resolver
    addr,       \* the address string given to getMultiaddr
    rpc,        \* "call" -> "probing" -> "done" ("idle" outside SpecResolve)
    resolved,   \* what getMultiaddr returned: [multiaddr, err]
    connects,   \* the AddrInfo of every h.Connect the resolver has made
    probe,      \* what the probe's h.Connect returned, once it has
    \* ---- request client
    response,     \* the items the peer writes to the stream, in order
    pos,          \* how many of them the client has consumed
    spc,          \* "start" -> "opened" -> "written" -> "reading" -> "done" | "failed"
    blobSidecars, \* the sidecars collected by the response loop
    ret,          \* what sendBlobsSidecarsByRangeRequest returned: [sidecars, err]
    stream,       \* the outbound stream: opened, written, writeClosed, reset, closed
    ops,          \* the calls made on the host, the stream and the encoder, in order
    chunks,       \* one record for each call of readChunkedBlobsSidecar
    ctx,          \* the context the request was given: "live" or "cancelled"
    cancelledAt,  \* where the request was when its context was cancelled
    \* DownloadApp
    dpc,          \* "start" -> "host" -> "handlers" -> "resolved" -> "addrinfo"
                  \*   -> "connected" -> "received" -> "done"
    slot,         \* the slot asked for
    received,     \* DownloadApp's sidecars: what the request returned to it
    stdout,       \* the bytes written to os.Stdout, in order
    dret,         \* the error DownloadApp returned
    dsteps,       \* the calls DownloadApp made, in order
    host,         \* the libp2p host: "none", "open", "closed"
    \* the stream handlers installed by setHandler
    inbound,      \* one record for each inbound stream a peer opened, in order
    alive,        \* the process runs (FALSE after a panic nobody recovered)
    \* TxApp
    tpc,          \* "send" -> "poll" <-> "sleep", "poll" -> "exited" -> "returned";
                  \*   "fatal" after log.Fatalf
    receipts,     \* the error of every client.TransactionReceipt call, in order
    tlog          \* what TxApp logged and how long it slept, in order

codecVars == <<data, blobs, decoded, cpc>>

resolveVars == <<addr, rpc, resolved, connects, probe>>

requestVars ==
    <<response, pos, spc, blobSidecars, ret, stream, ops, chunks, ctx, cancelledAt>>

downloadVars == <<dpc, slot, received, stdout, dret, dsteps, host>>

handlerVars == <<inbound, alive>>

txVars == <<tpc, receipts, tlog>>

vars == <<codecVars, resolveVars, requestVars, downloadVars, handlerVars, txVars>>

\* what each part leaves alone
notCodec == <<resolveVars, requestVars, downloadVars, handlerVars, txVars>>

notResolve == <<codecVars, requestVars, downloadVars, handlerVars, txVars>>

notRequest == <<codecVars, resolveVars, downloadVars, handlerVars, txVars>>

notDownload == <<codecVars, resolveVars, requestVars, handlerVars, txVars>>

notHandlers == <<codecVars, resolveVars, requestVars, downloadVars, txVars>>

notTx == <<codecVars, resolveVars, requestVars, downloadVars, handlerVars>>

(***************************************************************************)
(* Sizes.  The program's sizes are 4096 field elements per blob and 32     *)
(* bytes per field element of which 31 carry payload; the model keeps the  *)
(* shape (one reserved byte per element) at sizes TLC can enumerate.       *)
(***************************************************************************)
\* params.FieldElementsPerBlob (4096 in go-ethereum), scaled down
FieldElementsPerBlob == 2

\* the stride of EncodeBlobs, 31 in the source (part_002:234,241), scaled down
UsableBytes == 2

\* a field element is the usable bytes and one reserved byte (32 in the source)
FieldElementSize == UsableBytes + 1

\* the byte values inputs are drawn from (0 is the padding value)
Byte == 0..2

\* inputs reach one byte into a second blob
MaxDataLen == FieldElementsPerBlob * UsableBytes + 1

SeqsUpTo(S, n) == UNION {[1..k -> S] : k \in 0..n}

\* a value that may be absent (a nil pointer, a nil slice): <<>> or <<x>>
None == <<>>

Some(x) == <<x>>

(***************************************************************************)
(* Go errors: a kind, the text Error() returns and, for an error made by   *)
(* fmt.Errorf("%w..."), the error it wraps.                                *)
(***************************************************************************)
NoErr == [kind |-> "nil", text |-> "", cause |-> None]

NewError(kind, text) == [kind |-> kind, text |-> text, cause |-> None]

(***************************************************************************)
(* The idle values of each part's variables                                *)
(***************************************************************************)
CodecIdle ==
    /\ data = <<>>
    /\ blobs = <<>>
    /\ decoded = <<>>
    /\ cpc = "idle"

ResolveIdle ==
    /\ addr = ""
    /\ rpc = "idle"
    /\ resolved = [multiaddr |-> None, err |-> NoErr]
    /\ connects = <<>>
    /\ probe = None

RequestIdle ==
    /\ response = <<>>
    /\ pos = 0
    /\ spc = "idle"
    /\ blobSidecars = <<>>
    /\ ret = [sidecars |-> <<>>, err |-> NoErr]
    /\ stream = [opened |-> FALSE, written |-> 0, writeClosed |-> FALSE,
                 reset |-> FALSE, closed |-> FALSE]
    /\ ops = <<>>
    /\ chunks = <<>>
    /\ ctx = "live"
    /\ cancelledAt = ""

DownloadIdle ==
    /\ dpc = "idle"
    /\ slot = 0
    /\ received = <<>>
    /\ stdout = <<>>
    /\ dret = NoErr
    /\ dsteps = <<>>
    /\ host = "none"

HandlersIdle ==
    /\ inbound = <<>>
    /\ alive = TRUE

TxIdle ==
    /\ tpc = "idle"
    /\ receipts = <<>>
    /\ tlog = <<>>

Min(a, b) == IF a < b THEN a ELSE b

(***************************************************************************)
(* Blob codec                                                              *)
(***************************************************************************)
\* a zeroed field element, and types.Blob{}: Go allocates both zeroed
ZeroFieldElement == [i \in 1..FieldElementSize |-> 0]

ZeroBlob == [f \in 1..FieldElementsPerBlob |-> ZeroFieldElement]

\* a plausible slip: the bytes are copied to the end of the element
CopyToEnd(dst, src) ==
    [i \in 1..Len(dst) |->
        IF i > Len(dst) - Len(src) THEN src[i - (Len(dst) - Len(src))] ELSE dst[i]]

\* Go's copy(dst, src): min(len(dst), len(src)) bytes, from index 0
Copy(dst, src) == [i \in 1..Len(dst) |-> IF i <= Len(src) THEN src[i] ELSE dst[i]]

\* Go's s[lo:hi] on a 0-indexed slice
Slice(s, lo, hi) == SubSeq(s, lo + 1, hi)

\* a plausible slip: the blob is taken to be full one element early
NeedNewBlobEarly(fieldIndex) == fieldIndex = FieldElementsPerBlob - 1

\* if fieldIndex == params.FieldElementsPerBlob
NeedNewBlob(fieldIndex) == fieldIndex = FieldElementsPerBlob

\* a plausible slip: the loop takes strides of the size of a field element
RECURSIVE EncodeLoopWholeElements(_, _, _, _, _)
EncodeLoopWholeElements(d, i, bs, blobIndex, fieldIndex) ==
    IF ~(i < Len(d)) THEN bs
    ELSE LET fi1  == fieldIndex + 1
             roll == fi1 = FieldElementsPerBlob
             bs1  == IF roll THEN Append(bs, ZeroBlob) ELSE bs
             bi   == IF roll THEN blobIndex + 1 ELSE blobIndex
             fi   == IF roll THEN 0 ELSE fi1
             max  == IF i + FieldElementSize > Len(d) THEN Len(d)
                     ELSE i + FieldElementSize
             bs2  == [bs1 EXCEPT ![bi + 1][fi + 1] =
                         [j \in 1..Len(@) |->
                             IF j <= max - i THEN d[i + j] ELSE @[j]]]
         IN  EncodeLoopWholeElements(d, i + FieldElementSize, bs2, bi, fi)

\* one iteration of EncodeBlobs' loop and the iterations after it; blobIndex
\* and fieldIndex are 0-based as in the source
RECURSIVE EncodeLoop(_, _, _, _, _)
EncodeLoop(d, i, bs, blobIndex, fieldIndex) ==
    IF ~(i < Len(d)) THEN bs
    ELSE LET fi1  == fieldIndex + 1
             roll == NeedNewBlob(fi1)
             bs1  == IF roll THEN Append(bs, ZeroBlob) ELSE bs
             bi   == IF roll THEN blobIndex + 1 ELSE blobIndex
             fi   == IF roll THEN 0 ELSE fi1
             max  == IF i + UsableBytes > Len(d) THEN Len(d) ELSE i + UsableBytes
             bs2  == [bs1 EXCEPT ![bi + 1][fi + 1] = Copy(@, Slice(d, i, max))]
         IN  EncodeLoop(d, i + UsableBytes, bs2, bi, fi)

EncodeBlobs(d) == EncodeLoop(d, 0, <<ZeroBlob>>, 0, -1)

\* the index DecodeBlob's reverse scan stops at: the last non-zero byte, or -1
RECURSIVE ScanBack(_, _)
ScanBack(blob, i) ==
    IF i >= 0 /\ blob[i + 1] = 0 THEN ScanBack(blob, i - 1) ELSE i

\* a plausible slip: the scan stops at index 0 without looking at it (i > 0)
RECURSIVE ScanBackSkipFirst(_, _)
ScanBackSkipFirst(blob, i) ==
    IF i > 0 /\ blob[i + 1] = 0 THEN ScanBackSkipFirst(blob, i - 1) ELSE i

DecodeBlobSkipFirst(blob) == Slice(blob, 0, ScanBackSkipFirst(blob, Len(blob) - 1) + 1)

DecodeBlob(blob) == Slice(blob, 0, ScanBack(blob, Len(blob) - 1) + 1)

\* the bytes of a blob in memory order: element after element, each with its
\* reserved byte (enc[:] in the tests, blob.Data in DownloadApp)
RECURSIVE Flatten(_)
Flatten(blob) ==
    IF Len(blob) = 0 THEN <<>> ELSE Head(blob) \o Flatten(Tail(blob))

RECURSIVE Concat(_)
Concat(ss) == IF Len(ss) = 0 THEN <<>> ELSE Head(ss) \o Concat(Tail(ss))

InitCodec ==
    /\ data \in SeqsUpTo(Byte, MaxDataLen)
    /\ blobs = <<>>
    /\ decoded = <<>>
    /\ cpc = "input"
    /\ ResolveIdle
    /\ RequestIdle
    /\ DownloadIdle
    /\ TxIdle
    /\ HandlersIdle

Encode ==
    /\ cpc = "input"
    /\ blobs' = EncodeBlobs(data)
    /\ cpc' = "encoded"
    /\ UNCHANGED <<data, decoded>>
    /\ UNCHANGED notCodec

\* the caller decodes blob by blob, in order (TestBlobsCodec, DownloadApp)
Decode ==
    /\ cpc = "encoded"
    /\ decoded' = [k \in 1..Len(blobs) |-> DecodeBlob(Flatten(blobs[k]))]
    /\ cpc' = "decoded"
    /\ UNCHANGED <<data, blobs>>
    /\ UNCHANGED notCodec

NextCodec == Encode \/ Decode

SpecCodec == InitCodec /\ [][NextCodec]_vars

(***************************************************************************)
(* Strings (TLC treats a string as the sequence of its characters)         *)
(***************************************************************************)
\* strings.Contains
Contains(s, sub) ==
    \E i \in 1..(Len(s) - Len(sub) + 1) : SubSeq(s, i, i + Len(sub) - 1) = sub

\* strings.Split(s, sep) for a one-character sep: the fields between the
\* separators, in order, empty fields included
SepPositions(s, sep) == {i \in 1..Len(s) : SubSeq(s, i, i) = sep}

StrSplit(s, sep) ==
    LET P      == SepPositions(s, sep)
        n      == Cardinality(P)
        Nth(k) == CHOOSE q \in P : Cardinality({r \in P : r < q}) = k - 1
        lo(k)  == IF k = 1 THEN 1 ELSE Nth(k - 1) + 1
        hi(k)  == IF k = n + 1 THEN Len(s) ELSE Nth(k) - 1
    IN  [k \in 1..(n + 1) |-> SubSeq(s, lo(k), hi(k))]

\* strings.TrimRight(s, c) for a one-character cutset
RECURSIVE TrimRight(_, _)
TrimRight(s, c) ==
    IF Len(s) > 0 /\ SubSeq(s, Len(s), Len(s)) = c
    THEN TrimRight(SubSeq(s, 1, Len(s) - 1), c)
    ELSE s

\* strings.Join
RECURSIVE Join(_, _)
Join(parts, sep) ==
    IF Len(parts) = 0 THEN ""
    ELSE IF Len(parts) = 1 THEN parts[1]
    ELSE parts[1] \o sep \o Join(Tail(parts), sep)

(***************************************************************************)
(* Peer resolver: getMultiaddr and retrievePeerID                          *)
(***************************************************************************)
\* the deliberately wrong fingerprint of retrievePeerID
IncorrectPeerID == "16Uiu2HAmSifdT5QutTsaET8xqjWAMPp4obrQv7LN79f2RMmBe3nY"

\* the fingerprint of the remote peer's key
RemotePeerID == "16Uiu2HAmRemote"

\* the values each protocol of a multiaddr accepts
ValidValue(proto, value) ==
    CASE proto = "ip4" -> value \in {"10.0.0.1"}
      [] proto = "p2p" -> value \in {IncorrectPeerID, RemotePeerID}
      [] OTHER -> FALSE

ProtocolNames == {"ip4", "p2p"}

ErrMultiaddr == NewError("multiaddr", "failed to parse multiaddr")

\* the components of a multiaddr from the fields between its slashes
RECURSIVE ParseComponents(_, _)
ParseComponents(sp, acc) ==
    IF Len(sp) = 0 THEN [multiaddr |-> Some(acc), err |-> NoErr]
    ELSE IF sp[1] \notin ProtocolNames \/ Len(sp) < 2
         THEN [multiaddr |-> None, err |-> ErrMultiaddr]
    ELSE IF ~ValidValue(sp[1], sp[2])
         THEN [multiaddr |-> None, err |-> ErrMultiaddr]
    ELSE ParseComponents(SubSeq(sp, 3, Len(sp)),
                         Append(acc, [proto |-> sp[1], value |-> sp[2]]))

\* ma.NewMultiaddr: trailing slashes are dropped, the string must begin with
\* a slash and name at least one protocol, each protocol with its value
NewMultiaddr(s) ==
    LET sp == StrSplit(TrimRight(s, "/"), "/")
    IN  IF sp[1] # "" \/ Len(sp) = 1
        THEN [multiaddr |-> None, err |-> ErrMultiaddr]
        ELSE ParseComponents(Tail(sp), <<>>)

\* peer.SplitAddr: the address without its last component and that component's
\* fingerprint, when the last component is a p2p one; else the address and ""
SplitAddr(m) ==
    IF Len(m) > 0 /\ m[Len(m)].proto = "p2p"
    THEN [transport |-> SubSeq(m, 1, Len(m) - 1), id |-> m[Len(m)].value]
    ELSE [transport |-> m, id |-> ""]

ErrInvalidAddr == NewError("peer", "invalid p2p multiaddr")

\* peer.AddrInfoFromString
AddrInfoFromString(s) ==
    LET a == NewMultiaddr(s)
    IN  IF a.err # NoErr THEN [info |-> None, err |-> a.err]
        ELSE LET sa == SplitAddr(a.multiaddr[1])
             IN  IF sa.id = "" THEN [info |-> None, err |-> ErrInvalidAddr]
                 ELSE [info |-> Some([ID |-> sa.id, Addrs |-> sa.transport]),
                       err |-> NoErr]

\* what h.Connect can return to the probe: nil, or an error of the dialer.
\* The secure channel reports a peer whose key does not match the expected
\* fingerprint as "... but remote key matches <fingerprint>".
ConnectOutcomes ==
    { NoErr,
      NewError("dial", "peer id mismatch: expected " \o IncorrectPeerID
                       \o ", but remote key matches " \o RemotePeerID),
      NewError("dial", "peer id mismatch: expected " \o IncorrectPeerID
                       \o ", but remote key matches " \o RemotePeerID
                       \o " (dial backoff)"),
      NewError("dial", "but remote key matches "),
      NewError("dial", "connection refused") }

\* a plausible slip: the probe's success is not checked
AfterConnectUnchecked(e) ==
    IF e # NoErr /\ ~Contains(e.text, "but remote key matches")
    THEN [id |-> "", err |-> e]
    ELSE LET split == StrSplit(e.text, " ")
         IN  [id |-> IF e = NoErr THEN IncorrectPeerID ELSE split[Len(split)],
              err |-> NoErr]

\* a plausible slip: the index of the last field is off by one
AfterConnectNextToLast(e) ==
    IF e = NoErr
    THEN [id |-> "", err |-> NewError("errorString", "unexpected successful connection")]
    ELSE IF Contains(e.text, "but remote key matches")
    THEN LET split == StrSplit(e.text, " ")
         IN  [id |-> split[Len(split) - 1], err |-> NoErr]
    ELSE [id |-> "", err |-> e]

\* a plausible slip: the probe's error is wrapped on its way out
AfterConnectWrapped(e) ==
    IF e = NoErr
    THEN [id |-> "", err |-> NewError("errorString", "unexpected successful connection")]
    ELSE IF Contains(e.text, "but remote key matches")
    THEN LET split == StrSplit(e.text, " ")
         IN  [id |-> split[Len(split)], err |-> NoErr]
    ELSE [id |-> "", err |-> [kind |-> "wrapError",
                              text |-> e.text \o ": unable to retrieve peer id",
                              cause |-> Some(e)]]

\* retrievePeerID from the return of h.Connect on
AfterConnect(e) ==
    IF e = NoErr
    THEN [id |-> "", err |-> NewError("errorString", "unexpected successful connection")]
    ELSE IF Contains(e.text, "but remote key matches")
    THEN LET split == StrSplit(e.text, " ")
         IN  [id |-> split[Len(split)], err |-> NoErr]
    ELSE [id |-> "", err |-> e]

\* a plausible slip: the test for an embedded fingerprint is inverted
HasPeerIDInverted(id) == id = ""

\* if id != ""
HasPeerID(id) == id # ""

\* the address strings the resolver is called with: fields joined by slashes
AddrFields == {"", "ip4", "10.0.0.1", "p2p", RemotePeerID, "x"}

MaxAddrFields == 5

InitResolve ==
    /\ \E fields \in SeqsUpTo(AddrFields, MaxAddrFields) : addr = Join(fields, "/")
    /\ rpc = "call"
    /\ resolved = [multiaddr |-> None, err |-> NoErr]
    /\ connects = <<>>
    /\ probe = None
    /\ CodecIdle
    /\ RequestIdle
    /\ DownloadIdle
    /\ TxIdle
    /\ HandlersIdle

\* getMultiaddr up to its return or, through retrievePeerID, up to the call
\* of h.Connect
GetMultiaddr ==
    /\ rpc = "call"
    /\ LET parsed == NewMultiaddr(addr)
           wrong  == AddrInfoFromString(addr \o "/p2p/" \o IncorrectPeerID)
       IN  IF parsed.err # NoErr
           THEN /\ resolved' = [multiaddr |-> None, err |-> parsed.err]
                /\ rpc' = "done"
                /\ UNCHANGED connects
           ELSE IF HasPeerID(SplitAddr(parsed.multiaddr[1]).id)
           THEN /\ resolved' = [multiaddr |-> parsed.multiaddr, err |-> NoErr]
                /\ rpc' = "done"
                /\ UNCHANGED connects
           ELSE IF wrong.err # NoErr
           THEN /\ resolved' = [multiaddr |-> None, err |-> wrong.err]
                /\ rpc' = "done"
                /\ UNCHANGED connects
           ELSE /\ connects' = Append(connects, wrong.info[1])
                /\ rpc' = "probing"
                /\ UNCHANGED resolved
    /\ UNCHANGED <<addr, probe>>
    /\ UNCHANGED notResolve

\* h.Connect returns e to retrievePeerID, which returns to getMultiaddr, which
\* returns
ProbeReturns ==
    /\ rpc = "probing"
    /\ \E e \in ConnectOutcomes :
          LET r == AfterConnect(e)
          IN  /\ probe' = Some(e)
              /\ resolved' =
                    IF r.err # NoErr THEN [multiaddr |-> None, err |-> r.err]
                    ELSE NewMultiaddr(addr \o "/p2p/" \o r.id)
    /\ rpc' = "done"
    /\ UNCHANGED <<addr, connects>>
    /\ UNCHANGED notResolve

NextResolve == GetMultiaddr \/ ProbeReturns

SpecResolve == InitResolve /\ [][NextResolve]_vars

(***************************************************************************)
(* Chunked request client: sendBlobsSidecarsByRangeRequest                 *)
(*                                                                         *)
(* The response is the sequence of items the peer wrote to the stream: a   *)
(* status byte, the bytes of the context field one by one, and each        *)
(* length-prefixed message (an error message, a sidecar) as one item.  A   *)
(* message cut short by the end of the stream and bytes that are no        *)
(* message at all are items of their own.                                  *)
(***************************************************************************)
Status(c) == [t |-> "status", v |-> c]

Ctx == [t |-> "ctx", v |-> 0]

Payload(s) == [t |-> "sidecar", v |-> s]

Message(m) == [t |-> "errmsg", v |-> m]

Truncated == [t |-> "truncated", v |-> 0]

Garbage == [t |-> "garbage", v |-> 0]

\* b := make([]byte, 4): the length of the context field
ContextLen == 4

Context == [i \in 1..ContextLen |-> Ctx]

OkChunk(s) == <<Status(0)>> \o Context \o <<Payload(s)>>

ErrChunk(c, m) == <<Status(c), Message(m)>>

BadChunk == <<Status(0)>> \o Context \o <<Garbage>>

\* the chunks a peer may write, whole
Chunks ==
    { OkChunk("s1"), OkChunk("s2"), ErrChunk(1, "m1"), ErrChunk(3, "EOF"), BadChunk }

\* what may follow the last whole chunk before the stream ends
Tails ==
    { <<>>,
      <<Status(0)>>,
      <<Status(0), Ctx>>,
      <<Status(0)>> \o Context,
      <<Status(0)>> \o Context \o <<Truncated>>,
      <<Status(1)>>,
      <<Status(1), Truncated>> }

MaxChunks == 2

Responses ==
    { Concat(cs) \o tail : cs \in SeqsUpTo(Chunks, MaxChunks), tail \in Tails }

\* io.EOF, io.ErrUnexpectedEOF, a decoding failure of the encoder, and a
\* failure of the transport (stream reset, deadline exceeded)
ErrEOF == NewError("EOF", "EOF")

ErrUnexpectedEOF == NewError("ErrUnexpectedEOF", "unexpected EOF")

ErrDecode == NewError("decode", "invalid message")

ErrTransport == NewError("transport", "stream reset")

\* fmt.Errorf("%w" + suffix, err)
Wrap(err, suffix) == [kind |-> "wrapError", text |-> err.text \o suffix, cause |-> Some(err)]

\* errors.Is: err or an error it wraps is the target
RECURSIVE ErrorsIs(_, _)
ErrorsIs(err, target) ==
    \/ err = target
    \/ err.cause # None /\ ErrorsIs(err.cause[1], target)

\* the bytes of the context field that lie at the head of the stream from
\* offset p on
RECURSIVE CtxAvailable(_, _)
CtxAvailable(resp, p) ==
    IF p < Len(resp) /\ resp[p + 1].t = "ctx" THEN 1 + CtxAvailable(resp, p + 1) ELSE 0

\* the bytes a read at offset p can be served from: the status byte, or the
\* context bytes that follow one another
Available(resp, p) ==
    IF resp[p + 1].t = "ctx" THEN CtxAvailable(resp, p) ELSE 1

\* stream.Read(b) with len(b) = n at offset p: a transport failure, io.EOF
\* at the end of the stream, or at least one and at most n of the bytes that
\* have arrived
StreamRead(resp, p, n) ==
    {[n |-> 0, err |-> ErrTransport]} \cup
    IF p = Len(resp) THEN {[n |-> 0, err |-> ErrEOF]}
    ELSE {[n |-> k, err |-> NoErr] : k \in 1..Min(n, Available(resp, p))}

\* encoding.DecodeWithMaxLength at offset p for a message of type want: the
\* message at the head of the stream; io.EOF at the end of the stream; for a
\* message cut short io.EOF or io.ErrUnexpectedEOF, as the cut falls; for
\* anything else a decoding failure, or an end of stream met while reading on
DecodeWithMaxLength(resp, p, want) ==
    {[v |-> "", err |-> ErrTransport, used |-> 0]} \cup
    IF p = Len(resp) THEN {[v |-> "", err |-> ErrEOF, used |-> 0]}
    ELSE IF resp[p + 1].t = want THEN {[v |-> resp[p + 1].v, err |-> NoErr, used |-> 1]}
    ELSE IF resp[p + 1].t = "truncated"
         THEN {[v |-> "", err |-> e, used |-> 1] : e \in {ErrEOF, ErrUnexpectedEOF}}
    ELSE IF resp[p + 1].t = "garbage"
         THEN {[v |-> "", err |-> ErrDecode, used |-> 1]}
    ELSE {[v |-> "", err |-> e, used |-> Len(resp) - p] :
              e \in {ErrDecode, ErrUnexpectedEOF, ErrEOF}}

\* sync.ReadStatusCode and readStatusCodeNoDeadline: the status byte and, when
\* it is not responseCodeSuccess, the error message after it
ReadStatus(resp, p) ==
    UNION {
        IF r.err # NoErr
        THEN {[code |-> 0, errMsg |-> "", err |-> r.err, used |-> 0, at |-> "status"]}
        ELSE IF resp[p + 1].v = 0
        THEN {[code |-> 0, errMsg |-> "", err |-> NoErr, used |-> 1, at |-> "none"]}
        ELSE {IF d.err # NoErr
              THEN [code |-> 0, errMsg |-> "", err |-> d.err, used |-> 1 + d.used,
                    at |-> "errmsg"]
              ELSE [code |-> resp[p + 1].v, errMsg |-> d.v, err |-> NoErr,
                    used |-> 1 + d.used, at |-> "none"]
                : d \in DecodeWithMaxLength(resp, p + 1, "errmsg")}
        : r \in StreamRead(resp, p, 1)}

\* a plausible slip: the peer's message is dropped for a fixed text
RemoteErrorFixedText(errMsg) == NewError("errorString", "error response")

\* errors.New(errMsg)
RemoteError(errMsg) == NewError("errorString", errMsg)

\* readChunkedBlobsSidecar at offset p: every outcome the stream allows, with
\* the items it consumed, the step that failed and the calls it made
ReadChunkedBlobsSidecar(resp, p, isFirstChunk) ==
    LET statusCalls == IF isFirstChunk THEN <<"ReadStatusCode">>
                       ELSE <<"SetStreamReadDeadline", "readStatusCodeNoDeadline">>
        Out(sc, e, u, a, c, n, calls) ==
            [sidecar |-> sc, err |-> e, used |-> u, at |-> a, code |-> c,
             ctxRead |-> n, calls |-> calls]
    IN  UNION {
          IF st.err # NoErr
          THEN {Out(None, st.err, st.used, st.at, 0, 0, statusCalls)}
          ELSE IF st.code # 0
          THEN {Out(None, RemoteError(st.errMsg), st.used, "remote", st.code, 0, statusCalls)}
          ELSE UNION {
                 IF c.err # NoErr
                 THEN {Out(None, c.err, st.used, "context", 0, 0,
                           statusCalls \o <<"Read">>)}
                 ELSE {Out(Some(d.v), d.err, st.used + c.n + d.used,
                           IF d.err # NoErr THEN "payload" ELSE "none", 0, c.n,
                           statusCalls \o <<"Read", "DecodeWithMaxLength">>)
                         : d \in DecodeWithMaxLength(resp, p + st.used + c.n, "sidecar")}
                 : c \in StreamRead(resp, p + st.used, ContextLen)}
          : st \in ReadStatus(resp, p)}

\* a plausible slip: the stream is taken to be finished once it was reset
DeferredCloseUnlessReset(s) == IF s.reset THEN s ELSE [s EXCEPT !.closed = TRUE]

\* defer func() { _ = stream.Close() }()
DeferredClose(s) == [s EXCEPT !.closed = TRUE]

\* a plausible slip: the failure is returned without resetting the stream
ResetSkipped(s) == s

\* _ = stream.Reset()
Reset(s) == [s EXCEPT !.reset = TRUE]

InitRequest ==
    /\ response \in Responses
    /\ pos = 0
    /\ spc = "start"
    /\ blobSidecars = <<>>
    /\ ret = [sidecars |-> <<>>, err |-> NoErr]
    /\ stream = [opened |-> FALSE, written |-> 0, writeClosed |-> FALSE,
                 reset |-> FALSE, closed |-> FALSE]
    /\ ops = <<>>
    /\ chunks = <<>>
    /\ ctx = "live"
    /\ cancelledAt = ""
    /\ CodecIdle
    /\ ResolveIdle
    /\ DownloadIdle
    /\ TxIdle
    /\ HandlersIdle

\* a return of sendBlobsSidecarsByRangeRequest after the defer statement: s
\* and calls are the stream and the calls made up to the return
Return(sidecars, err, s, calls) ==
    /\ ret' = [sidecars |-> sidecars, err |-> err]
    /\ spc' = IF err = NoErr THEN "done" ELSE "failed"
    /\ stream' = DeferredClose(s)
    /\ ops' = calls \o <<"Close">>

\* ctx.Err() of a cancelled context
ErrCanceled == NewError("context", "context canceled")

\* h.NewStream(ctx, ...), and the return when it fails: it opens no stream
\* under a cancelled context
NewStream ==
    /\ spc = "start"
    /\ \E ok \in IF ctx = "live" THEN BOOLEAN ELSE {FALSE} :
          IF ok
          THEN /\ stream' = [stream EXCEPT !.opened = TRUE]
               /\ spc' = "opened"
               /\ UNCHANGED ret
          ELSE /\ ret' = [sidecars |-> <<>>,
                          err |-> IF ctx = "live" THEN ErrTransport ELSE ErrCanceled]
               /\ spc' = "failed"
               /\ UNCHANGED stream
    /\ ops' = Append(ops, "NewStream")
    /\ UNCHANGED <<response, pos, blobSidecars, chunks, ctx, cancelledAt>>
    /\ UNCHANGED notRequest

\* encoding.EncodeWithMaxLength(stream, req)
WriteRequest ==
    /\ spc = "opened"
    /\ \E ok \in BOOLEAN :
          IF ok
          THEN /\ stream' = [stream EXCEPT !.written = @ + 1]
               /\ spc' = "written"
               /\ ops' = Append(ops, "EncodeWithMaxLength")
               /\ UNCHANGED ret
          ELSE Return(<<>>, ErrTransport, Reset(stream),
                      ops \o <<"EncodeWithMaxLength", "Reset">>)
    /\ UNCHANGED <<response, pos, blobSidecars, chunks, ctx, cancelledAt>>
    /\ UNCHANGED notRequest

\* a plausible slip: the error of the half-close is dropped and the response
\* is read from a stream whose write side is still open
CloseWriteIgnoringError ==
    /\ spc = "written"
    /\ \E ok \in BOOLEAN :
          /\ stream' = [stream EXCEPT !.writeClosed = ok]
          /\ spc' = "reading"
          /\ ops' = Append(ops, "CloseWrite")
          /\ UNCHANGED ret
    /\ UNCHANGED <<response, pos, blobSidecars, chunks, ctx, cancelledAt>>
    /\ UNCHANGED notRequest

\* stream.CloseWrite()
CloseWrite ==
    /\ spc = "written"
    /\ \E ok \in BOOLEAN :
          IF ok
          THEN /\ stream' = [stream EXCEPT !.writeClosed = TRUE]
               /\ spc' = "reading"
               /\ ops' = Append(ops, "CloseWrite")
               /\ UNCHANGED ret
          ELSE Return(<<>>, ErrTransport, Reset(stream),
                      ops \o <<"CloseWrite", "Reset">>)
    /\ UNCHANGED <<response, pos, blobSidecars, chunks, ctx, cancelledAt>>
    /\ UNCHANGED notRequest

\* a plausible slip: the deadline of the later chunks is set for every chunk
StatusDeadlineFixed(isFirstChunk) ==
    [by |-> "readChunkedBlobsSidecar", timeout |-> "10s"]

\* the read deadline in force when the status byte of a chunk is read, and
\* who set it.  For the first chunk readChunkedBlobsSidecar sets none and
\* calls ReadStatusCode of the sync package, which sets that package's
\* time-to-first-byte timeout (TtfbTimeout) before it reads the byte; for a
\* later chunk it sets time.Second*10 itself and reads with
\* readStatusCodeNoDeadline, which sets none.
StatusDeadline(isFirstChunk) ==
    IF isFirstChunk
    THEN [by |-> "sync.ReadStatusCode", timeout |-> "TtfbTimeout"]
    ELSE [by |-> "readChunkedBlobsSidecar", timeout |-> "10s"]

\* one iteration of the response loop, and the return when it ends the loop
ReadChunk ==
    /\ spc = "reading"
    /\ LET isFirstChunk == Len(blobSidecars) = 0
       IN  \E o \in ReadChunkedBlobsSidecar(response, pos, isFirstChunk) :
              /\ pos' = pos + o.used
              /\ chunks' = Append(chunks,
                    [from |-> pos, used |-> o.used, first |-> isFirstChunk,
                     at |-> o.at, code |-> o.code, err |-> o.err,
                     ctxRead |-> o.ctxRead,
                     deadline |-> StatusDeadline(isFirstChunk)])
              /\ IF ErrorsIs(o.err, ErrEOF)
                 THEN /\ Return(blobSidecars, NoErr, stream, ops \o o.calls)
                      /\ UNCHANGED blobSidecars
                 ELSE IF o.err # NoErr
                 THEN /\ Return(<<>>, Wrap(o.err, ": readChunkedBlobsSidecar"),
                                stream, ops \o o.calls)
                      /\ UNCHANGED blobSidecars
                 ELSE /\ blobSidecars' = Append(blobSidecars, o.sidecar[1])
                      /\ ops' = ops \o o.calls
                      /\ UNCHANGED <<ret, spc, stream>>
    /\ UNCHANGED <<response, ctx, cancelledAt>>
    /\ UNCHANGED notRequest

NextRequest == NewStream \/ WriteRequest \/ CloseWrite \/ ReadChunk

SpecRequest == InitRequest /\ [][NextRequest]_vars

\* the request with every call it makes returning: the function is one
\* sequential goroutine, NewStream runs under the dial timeout, the status
\* reads under the read deadlines set before them, and the response ends
SpecRequestLive == SpecRequest /\ WF_vars(NextRequest)

\* the holder of the context's cancel function calls it while the request
\* runs.  (DownloadApp, the one caller, calls it on its own return only; the
\* request takes the context as an argument, and this is the caller the
\* cancellation contract is about.)
CancelContext ==
    /\ ctx = "live"
    /\ spc \in {"start", "opened", "written", "reading"}
    /\ ctx' = "cancelled"
    /\ cancelledAt' = spc
    /\ UNCHANGED <<response, pos, spc, blobSidecars, ret, stream, ops, chunks>>
    /\ UNCHANGED notRequest

NextRequestCtx == NextRequest \/ CancelContext

\* the request under a context that may be cancelled at any time
SpecRequestCtx == InitRequest /\ [][NextRequestCtx]_vars

(***************************************************************************)
(* DownloadApp                                                             *)
(***************************************************************************)
\* the topics DownloadApp installs handlers for, in the order of the source
ControlTopics ==
    <<"RPCPingTopicV1", "RPCGoodByeTopicV1", "RPCMetaDataTopicV1", "RPCMetaDataTopicV2">>

BulkTopics ==
    <<"RPCBlocksByRangeTopicV1", "RPCBlocksByRangeTopicV2",
      "RPCBlobsSidecarsByRangeTopicV1">>

\* the handler argument of each setHandler call
InstalledHandlers ==
    [k \in 1..Len(ControlTopics) |-> [topic |-> ControlTopics[k], handler |-> "pingHandler"]]
    \o [k \in 1..Len(BulkTopics) |-> [topic |-> BulkTopics[k], handler |-> "nilHandler"]]

\* the slots a request asks for and a sidecar carries
Slots == {1, 2}

MaxSidecars == 3

\* the inbound streams of a run beside the outbound request
MaxInbound == 2

\* the inbound streams of a run of the handlers alone
MaxHandled == 1

\* data short enough for one field element, and data one byte longer than a
\* blob holds, with and without a zero byte at the end of the first blob
PeerData ==
    { <<1>>,
      [i \in 1..(FieldElementsPerBlob * UsableBytes + 1) |-> 1 + (i % 2)],
      [i \in 1..(FieldElementsPerBlob * UsableBytes + 1) |->
          IF i = FieldElementsPerBlob * UsableBytes THEN 0 ELSE 1] }

\* blob.Data of each blob EncodeBlobs makes of d
BlobsOf(d) == [k \in 1..Len(EncodeBlobs(d)) |-> Flatten(EncodeBlobs(d)[k])]

\* the blob lists a sidecar of the peer carries: none, or those of some data
BlobLists == {<<>>} \cup {BlobsOf(d) : d \in PeerData}

Sidecars == [BeaconBlockSlot : Slots, Blobs : BlobLists]

ErrHost == NewError("libp2p", "failed to construct host")

ErrDial == NewError("dial", "connection refused")

\* the inner loop: every blob of the sidecar decoded and written, in order
WriteBlobs(bs) == Concat([k \in 1..Len(bs) |-> DecodeBlob(bs[k])])

\* a plausible slip: the scan goes on after the sidecar that was written
RECURSIVE ScanSidecarsNoBreak(_, _, _, _, _)
ScanSidecarsNoBreak(scs, s, i, out, anyBlobs) ==
    IF i > Len(scs) THEN [out |-> out, anyBlobs |-> anyBlobs]
    ELSE IF scs[i].BeaconBlockSlot # s THEN [out |-> out, anyBlobs |-> anyBlobs]
    ELSE IF Len(scs[i].Blobs) = 0 THEN ScanSidecarsNoBreak(scs, s, i + 1, out, anyBlobs)
    ELSE ScanSidecarsNoBreak(scs, s, i + 1, out \o WriteBlobs(scs[i].Blobs), TRUE)

\* a plausible slip: a sidecar of another slot is skipped, not the end
RECURSIVE ScanSidecarsSkipOtherSlots(_, _, _, _, _)
ScanSidecarsSkipOtherSlots(scs, s, i, out, anyBlobs) ==
    IF i > Len(scs) THEN [out |-> out, anyBlobs |-> anyBlobs]
    ELSE IF scs[i].BeaconBlockSlot # s
         THEN ScanSidecarsSkipOtherSlots(scs, s, i + 1, out, anyBlobs)
    ELSE IF Len(scs[i].Blobs) = 0
         THEN ScanSidecarsSkipOtherSlots(scs, s, i + 1, out, anyBlobs)
    ELSE [out |-> out \o WriteBlobs(scs[i].Blobs), anyBlobs |-> TRUE]

\* the loop over the sidecars from its i-th iteration on: break at another
\* slot, continue past an empty blob list, write and break at the first
\* sidecar with blobs
RECURSIVE ScanSidecars(_, _, _, _, _)
ScanSidecars(scs, s, i, out, anyBlobs) ==
    IF i > Len(scs) THEN [out |-> out, anyBlobs |-> anyBlobs]
    ELSE IF scs[i].BeaconBlockSlot # s THEN [out |-> out, anyBlobs |-> anyBlobs]
    ELSE IF Len(scs[i].Blobs) = 0 THEN ScanSidecars(scs, s, i + 1, out, anyBlobs)
    ELSE [out |-> out \o WriteBlobs(scs[i].Blobs), anyBlobs |-> TRUE]

\* fmt.Errorf("no blobs found in requested slots, sidecar count: %d", n)
ErrNoBlobs(n) ==
    NewError("errorString",
             "no blobs found in requested slots, sidecar count: " \o ToString(n))

InitDownload ==
    /\ dpc = "start"
    /\ slot \in Slots
    /\ received = <<>>
    /\ stdout = <<>>
    /\ dret = NoErr
    /\ dsteps = <<>>
    /\ host = "none"
    /\ CodecIdle
    /\ ResolveIdle
    /\ RequestIdle
    /\ HandlersIdle
    /\ TxIdle

\* a return of DownloadApp: the deferred h.Close runs once the host exists
Exit(err) ==
    /\ dret' = err
    /\ dpc' = "done"
    /\ host' = IF host = "open" THEN "closed" ELSE host

\* libp2p.New
NewHost ==
    /\ dpc = "start"
    /\ dsteps' = Append(dsteps, "libp2p.New")
    /\ \/ /\ dpc' = "host"
          /\ host' = "open"
          /\ UNCHANGED dret
       \/ Exit(ErrHost)
    /\ UNCHANGED <<slot, received, stdout>>
    /\ UNCHANGED notDownload

\* h.RemoveStreamHandler and the seven setHandler calls
InstallHandlers ==
    /\ dpc = "host"
    /\ dsteps' = dsteps \o <<"RemoveStreamHandler">>
                   \o [k \in 1..Len(InstalledHandlers) |->
                          "setHandler " \o InstalledHandlers[k].topic]
    /\ dpc' = "handlers"
    /\ UNCHANGED <<slot, received, stdout, dret, host>>
    /\ UNCHANGED notDownload

\* a plausible slip: the error of getMultiaddr is kept but not returned
ResolveAddrGoesOn ==
    /\ dpc = "handlers"
    /\ dsteps' = Append(dsteps, "getMultiaddr")
    /\ dpc' = "resolved"
    /\ \E e \in {NoErr, Wrap(ErrMultiaddr, ": unable to get multiaddr")} : dret' = e
    /\ UNCHANGED <<slot, received, stdout, host>>
    /\ UNCHANGED notDownload

\* getMultiaddr returns to DownloadApp
ResolveAddr ==
    /\ dpc = "handlers"
    /\ dsteps' = Append(dsteps, "getMultiaddr")
    /\ \/ /\ dpc' = "resolved"
          /\ UNCHANGED <<dret, host>>
       \/ \E e \in {ErrMultiaddr, ErrDial} : Exit(Wrap(e, ": unable to get multiaddr"))
    /\ UNCHANGED <<slot, received, stdout>>
    /\ UNCHANGED notDownload

\* peer.AddrInfoFromP2pAddr
AddrInfo ==
    /\ dpc = "resolved"
    /\ dsteps' = Append(dsteps, "AddrInfoFromP2pAddr")
    /\ \/ /\ dpc' = "addrinfo"
          /\ UNCHANGED <<dret, host>>
       \/ Exit(Wrap(ErrInvalidAddr, ": unable to get addr info"))
    /\ UNCHANGED <<slot, received, stdout>>
    /\ UNCHANGED notDownload

\* h.Connect to the resolved peer
ConnectPeer ==
    /\ dpc = "addrinfo"
    /\ dsteps' = Append(dsteps, "Connect")
    /\ \/ /\ dpc' = "connected"
          /\ UNCHANGED <<dret, host>>
       \/ Exit(Wrap(ErrDial, ": failed to connect"))
    /\ UNCHANGED <<slot, received, stdout>>
    /\ UNCHANGED notDownload

\* sendBlobsSidecarsByRangeRequest returns to DownloadApp: sidecars, or nil
\* and an error
SendRequest ==
    /\ dpc = "connected"
    /\ dsteps' = Append(dsteps, "sendBlobsSidecarsByRangeRequest")
    /\ \/ /\ received' \in SeqsUpTo(Sidecars, MaxSidecars)
          /\ dpc' = "received"
          /\ UNCHANGED <<dret, host>>
       \/ /\ \E e \in {ErrTransport, Wrap(ErrDecode, ": readChunkedBlobsSidecar")} :
                Exit(Wrap(e, ": unable to send blobs RPC request"))
          /\ UNCHANGED received
    /\ UNCHANGED <<slot, stdout>>
    /\ UNCHANGED notDownload

\* a plausible slip: the result of os.Stdout.Write is checked, and a write
\* cut short is returned as an error after a part of the bytes went out
PostProcessChecksWrite ==
    /\ dpc = "received"
    /\ LET r == ScanSidecars(received, slot, 1, <<>>, FALSE)
       IN  \E n \in 0..Len(r.out) :
              /\ stdout' = stdout \o SubSeq(r.out, 1, n)
              /\ Exit(IF n < Len(r.out) THEN NewError("io", "short write")
                      ELSE IF ~r.anyBlobs THEN ErrNoBlobs(Len(received))
                      ELSE NoErr)
    /\ UNCHANGED <<slot, received, dsteps>>
    /\ UNCHANGED notDownload

\* the loop over the sidecars and the return after it
PostProcess ==
    /\ dpc = "received"
    /\ LET r == ScanSidecars(received, slot, 1, <<>>, FALSE)
       IN  /\ stdout' = stdout \o r.out
           /\ Exit(IF ~r.anyBlobs THEN ErrNoBlobs(Len(received)) ELSE NoErr)
    /\ UNCHANGED <<slot, received, dsteps>>
    /\ UNCHANGED notDownload

NextDownload ==
    \/ NewHost
    \/ InstallHandlers
    \/ ResolveAddr
    \/ AddrInfo
    \/ ConnectPeer
    \/ SendRequest
    \/ PostProcess

SpecDownload == InitDownload /\ [][NextDownload]_vars

(***************************************************************************)
(* Inbound stream handlers: setHandler, pingHandler, metadataHandler       *)
(*                                                                         *)
(* libp2p runs the function given to SetStreamHandler in a goroutine of    *)
(* its own for every stream a peer opens, so the handlers of several       *)
(* streams and the outbound request run interleaved.                       *)
(***************************************************************************)
RPCTopics == {InstalledHandlers[k].topic : k \in 1..Len(InstalledHandlers)}

\* the topics p2p.RPCTopicMappings has a base message for; each base message
\* is a pointer (new(...)), so t.Kind() == reflect.Ptr for every one of them
RPCTopicMappings == RPCTopics

MetadataTopics == {"RPCMetaDataTopicV1", "RPCMetaDataTopicV2"}

\* the handler argument setHandler was called with for the topic
HandlerOf(topic) ==
    LET k == CHOOSE j \in 1..Len(InstalledHandlers) : InstalledHandlers[j].topic = topic
    IN  InstalledHandlers[k].handler

\* the handler the stream function calls: metadataHandler on the metadata
\* topics whatever was installed, the installed one on the others
CalledHandler(topic) ==
    IF topic \in MetadataTopics THEN "metadataHandler" ELSE HandlerOf(topic)

\* what the peer put on the stream for the handler to read: a request that
\* decodes, nothing at all, or bytes that do not decode
Requests == {"valid", "absent", "malformed"}

responseCodeSuccess == 0

\* dummyMetadata().SequenceNumber()
DummySeqNumber == 0

\* what the handler writes after the status byte: pingHandler the sequence
\* number as an SSZUint64, metadataHandler the metadata message
ResponseValue(handler) ==
    IF handler = "metadataHandler"
    THEN [t |-> "MetaDataV1", v |-> DummySeqNumber]
    ELSE [t |-> "SSZUint64", v |-> DummySeqNumber]

NewInbound(topic, req) ==
    [topic |-> topic, req |-> req, ipc |-> "accepted", written |-> <<>>,
     closed |-> FALSE, reset |-> FALSE, failed |-> "", panicking |-> FALSE,
     log |-> <<>>]

\* a call of the stream function panics: the deferred functions run next
Panic(s, next) == [s EXCEPT !.failed = "panic", !.panicking = TRUE, !.ipc = next]

\* the first statement of the handler that is called
EnterHandler(s) ==
    IF CalledHandler(s.topic) = "nilHandler"
    THEN [s EXCEPT !.ipc = "unwinding"]
    ELSE [s EXCEPT !.ipc = "status"]

\* a plausible slip: no deferred recover(), the panic leaves the goroutine
RecoverNothing(panicking) == ~panicking

\* defer func() { if r := recover(); r != nil { ... } }(): whether the process
\* goes on after the stream function
Recover(panicking) == TRUE

\* a plausible slip: the stream is reset only when something went wrong
WrapperResetOnFailureOnly(s) ==
    IF s.failed = "" THEN s
    ELSE [s EXCEPT !.reset = TRUE, !.log = Append(@, "Reset")]

\* a plausible slip: the reset is a statement at the end of the stream
\* function, not a deferred call, so a panic skips it
WrapperResetSkippedByPanic(s) ==
    IF s.panicking THEN s
    ELSE [s EXCEPT !.reset = TRUE, !.log = Append(@, "Reset")]

\* defer func() { _err := stream.Reset(); _ = _err }()
WrapperReset(s) == [s EXCEPT !.reset = TRUE, !.log = Append(@, "Reset")]

\* a plausible slip: the request is not decoded before the handler is called
DecodedAlways(req) == TRUE

\* encoding.DecodeWithMaxLength(stream, msg) returns nil
Decoded(req) == req = "valid"

\* a peer opens a stream on one of the topics, up to limit streams in a run
Accept(limit) ==
    /\ alive
    /\ Len(inbound) < limit
    /\ \E topic \in RPCTopics, req \in Requests :
          inbound' = Append(inbound, NewInbound(topic, req))
    /\ UNCHANGED alive
    /\ UNCHANGED notHandlers

\* the stream function up to the handler's first statement or its own return
Dispatch(i) ==
    /\ alive
    /\ inbound[i].ipc = "accepted"
    /\ LET s == inbound[i]
       IN  IF s.topic \notin RPCTopicMappings
           THEN inbound' = [inbound EXCEPT ![i] = [s EXCEPT !.ipc = "unwinding"]]
           ELSE IF s.topic \in MetadataTopics
           THEN inbound' = [inbound EXCEPT ![i] = EnterHandler(s)]
           ELSE LET d == [s EXCEPT !.log = Append(@, "DecodeWithMaxLength")]
                IN  \/ /\ Decoded(s.req)
                       /\ inbound' = [inbound EXCEPT ![i] = EnterHandler(d)]
                    \/ /\ ~Decoded(s.req)
                       /\ inbound' = [inbound EXCEPT ![i] =
                             [d EXCEPT !.failed = "decode", !.ipc = "unwinding"]]
                    \/ inbound' = [inbound EXCEPT ![i] = Panic(d, "unwinding")]
    /\ UNCHANGED alive
    /\ UNCHANGED notHandlers

\* stream.Write([]byte{responseCodeSuccess})
WriteStatus(i) ==
    /\ alive
    /\ inbound[i].ipc = "status"
    /\ LET s == [inbound[i] EXCEPT !.log = Append(@, "Write")]
       IN  \/ inbound' = [inbound EXCEPT ![i] =
                 [s EXCEPT !.written = Append(@, Status(responseCodeSuccess)),
                           !.ipc = "value"]]
           \/ inbound' = [inbound EXCEPT ![i] =
                 [s EXCEPT !.failed = "write", !.ipc = "closing"]]
           \/ inbound' = [inbound EXCEPT ![i] = Panic(s, "closing")]
    /\ UNCHANGED alive
    /\ UNCHANGED notHandlers

\* encoding.EncodeWithMaxLength(stream, ...): a failed write may have put a
\* part of the message on the stream
WriteValue(i) ==
    /\ alive
    /\ inbound[i].ipc = "value"
    /\ LET s == [inbound[i] EXCEPT !.log = Append(@, "EncodeWithMaxLength")]
       IN  \/ inbound' = [inbound EXCEPT ![i] =
                 [s EXCEPT !.written = Append(@, ResponseValue(CalledHandler(s.topic))),
                           !.ipc = "closing"]]
           \/ \E part \in {<<>>, <<Truncated>>} :
                 inbound' = [inbound EXCEPT ![i] =
                    [s EXCEPT !.written = @ \o part, !.failed = "write",
                              !.ipc = "closing"]]
           \/ inbound' = [inbound EXCEPT ![i] = Panic(s, "closing")]
    /\ UNCHANGED alive
    /\ UNCHANGED notHandlers

\* defer closeStream(stream), at the handler's return or during its panic
CloseStream(i) ==
    /\ alive
    /\ inbound[i].ipc = "closing"
    /\ inbound' = [inbound EXCEPT ![i] =
          [@ EXCEPT !.closed = TRUE, !.log = Append(@, "Close"), !.ipc = "unwinding"]]
    /\ UNCHANGED alive
    /\ UNCHANGED notHandlers

\* the deferred functions of the stream function: the reset, then the recover
Unwind(i) ==
    /\ alive
    /\ inbound[i].ipc = "unwinding"
    /\ LET s == WrapperReset(inbound[i])
       IN  IF Recover(s.panicking)
           THEN /\ inbound' = [inbound EXCEPT ![i] =
                      [s EXCEPT !.panicking = FALSE, !.ipc = "done"]]
                /\ UNCHANGED alive
           ELSE /\ inbound' = [inbound EXCEPT ![i] = s]
                /\ alive' = FALSE
    /\ UNCHANGED notHandlers

\* a step of the handler of some inbound stream
Handle ==
    \E i \in 1..Len(inbound) :
        \/ Dispatch(i)
        \/ WriteStatus(i)
        \/ WriteValue(i)
        \/ CloseStream(i)
        \/ Unwind(i)

InitInbound ==
    /\ inbound = <<>>
    /\ alive = TRUE
    /\ CodecIdle
    /\ ResolveIdle
    /\ RequestIdle
    /\ DownloadIdle
    /\ TxIdle

NextInbound == Accept(MaxHandled) \/ Handle

\* the handlers alone
SpecInbound == InitInbound /\ [][NextInbound]_vars

\* a base topic p2p.RPCTopicMappings has no base message for
UnmappedTopic == "topic without base message"

\* the base topics setHandler may be called with: it takes any string.
\* (DownloadApp calls it with the seven topics of RPCTopics only.)
BaseTopics == RPCTopics \cup {UnmappedTopic}

\* a peer opens a stream on a topic that setHandler registered a stream
\* function for, whatever base topic it was called with
AcceptAny(limit) ==
    /\ alive
    /\ Len(inbound) < limit
    /\ \E topic \in BaseTopics, req \in Requests :
          inbound' = Append(inbound, NewInbound(topic, req))
    /\ UNCHANGED alive
    /\ UNCHANGED notHandlers

NextSetHandler == AcceptAny(MaxHandled) \/ Handle

\* the stream function of setHandler for every base topic
SpecSetHandler == InitInbound /\ [][NextSetHandler]_vars

\* the response of the peer to the outbound request made while handlers run
ServeResponses == { OkChunk("s1") \o OkChunk("s2") }

InitServe ==
    /\ response \in ServeResponses
    /\ pos = 0
    /\ spc = "start"
    /\ blobSidecars = <<>>
    /\ ret = [sidecars |-> <<>>, err |-> NoErr]
    /\ stream = [opened |-> FALSE, written |-> 0, writeClosed |-> FALSE,
                 reset |-> FALSE, closed |-> FALSE]
    /\ ops = <<>>
    /\ chunks = <<>>
    /\ ctx = "live"
    /\ cancelledAt = ""
    /\ inbound = <<>>
    /\ alive = TRUE
    /\ CodecIdle
    /\ ResolveIdle
    /\ DownloadIdle
    /\ TxIdle

\* a step of the outbound request, which the process takes while it runs
Outbound ==
    /\ alive
    /\ \/ NewStream
       \/ WriteRequest
       \/ CloseWrite
       \/ ReadChunk

NextServe == Accept(MaxInbound) \/ Handle \/ Outbound

SpecServe == InitServe /\ [][NextServe]_vars

(***************************************************************************)
(* TxApp: the sending of the transaction and the polling for its receipt   *)
(***************************************************************************)
\* the receipt lookups of a run
MaxPolls == 4

\* ethereum.NotFound
ErrNotFound == NewError("ethereum.NotFound", "not found")

\* a *json.UnmarshalTypeError, as the client returns it for a receipt field
\* of another type
ErrUnmarshalType ==
    NewError("*json.UnmarshalTypeError",
             "json: cannot unmarshal hex number into Go struct field of type uint64")

\* errors of other types: of the connection, of the JSON syntax
ErrRPC == NewError("*net.OpError", "connection refused")

ErrSyntax == NewError("*json.SyntaxError", "unexpected end of JSON input")

\* what client.TransactionReceipt may return as its error
ReceiptErrors == {NoErr, ErrNotFound, ErrUnmarshalType, ErrRPC, ErrSyntax}

\* a plausible slip: the loop is left on every error but ethereum.NotFound
AfterReceiptBreakOnError(err) ==
    IF err = ErrNotFound THEN "sleep" ELSE "exited"

\* the if / else if / else of the loop body: where the loop goes after a
\* lookup returned err
AfterReceipt(err) ==
    IF err = ErrNotFound THEN "sleep"
    ELSE IF err # NoErr
         THEN IF err.kind = "*json.UnmarshalTypeError" THEN "exited" ELSE "poll"
    ELSE "exited"

InitTx ==
    /\ tpc = "send"
    /\ receipts = <<>>
    /\ tlog = <<>>
    /\ CodecIdle
    /\ ResolveIdle
    /\ RequestIdle
    /\ DownloadIdle
    /\ HandlersIdle

\* client.Client().CallContext(..., "eth_sendRawTransaction", ...) and the
\* log.Fatalf or log.Printf after it
SendRawTransaction ==
    /\ tpc = "send"
    /\ \/ /\ tpc' = "poll"
          /\ tlog' = Append(tlog, "successfully sent transaction")
       \/ /\ tpc' = "fatal"
          /\ tlog' = Append(tlog, "failed to send transaction")
    /\ UNCHANGED receipts
    /\ UNCHANGED notTx

\* client.TransactionReceipt and the branch taken on its error
TransactionReceipt ==
    /\ tpc = "poll"
    /\ Len(receipts) < MaxPolls
    /\ \E err \in ReceiptErrors :
          /\ receipts' = Append(receipts, err)
          /\ tpc' = AfterReceipt(err)
    /\ UNCHANGED tlog
    /\ UNCHANGED notTx

\* time.Sleep(1 * time.Second)
Sleep ==
    /\ tpc = "sleep"
    /\ tlog' = Append(tlog, "Sleep 1s")
    /\ tpc' = "poll"
    /\ UNCHANGED receipts
    /\ UNCHANGED notTx

\* log.Printf("Transaction included. ...") and return nil
ReportIncluded ==
    /\ tpc = "exited"
    /\ tlog' = Append(tlog, "Transaction included")
    /\ tpc' = "returned"
    /\ UNCHANGED receipts
    /\ UNCHANGED notTx

NextTx == SendRawTransaction \/ TransactionReceipt \/ Sleep \/ ReportIncluded

SpecTx == InitTx /\ [][NextTx]_vars

(***************************************************************************)
(* Properties of the codec (checked under SpecCodec)                       *)
(***************************************************************************)
\* d without its trailing run of zero bytes
RECURSIVE TrimTrailingZeros(_)
TrimTrailingZeros(d) ==
    IF Len(d) = 0 \/ d[Len(d)] # 0 THEN d
    ELSE TrimTrailingZeros(SubSeq(d, 1, Len(d) - 1))

AllZero(bytes) == \A i \in 1..Len(bytes) : bytes[i] = 0

OneBlobCapacity == FieldElementsPerBlob * UsableBytes

\* C1: for every d that fits in one blob, DecodeBlob of the flattened bytes of
\* the single blob EncodeBlobs(d) returns is d without its trailing run of
\* zero bytes (d itself when d is empty or ends in a non-zero byte).
C1_RoundTripOneBlob ==
    (cpc = "decoded" /\ Len(data) <= OneBlobCapacity)
        => /\ Len(blobs) = 1
           /\ decoded[1] = TrimTrailingZeros(data)

\* what does hold of the source: the round trip is exact up to trailing zeros
\* only while the input stays within the first field element
RoundTripWithinOneElement ==
    (cpc = "decoded" /\ Len(data) <= UsableBytes)
        => decoded = <<TrimTrailingZeros(data)>>

\* C2: for every d that spans two or more blobs and ends in a non-zero byte,
\* the concatenation of DecodeBlob over the blobs of EncodeBlobs(d), in
\* order, is d.
C2_RoundTripMultiBlob ==
    (cpc = "decoded" /\ Len(data) > OneBlobCapacity /\ data[Len(data)] # 0)
        => Concat(decoded) = data

\* C3: an input of C*31 bytes is encoded into exactly one blob; an input of
\* C*31+1 bytes into exactly two, the second holding the last byte at the
\* start of its first field element and zero everywhere else.
C3_BlobSizing ==
    cpc # "input" =>
        /\ Len(data) = OneBlobCapacity => Len(blobs) = 1
        /\ Len(data) = OneBlobCapacity + 1 =>
              /\ Len(blobs) = 2
              /\ Flatten(blobs[2]) =
                    [i \in 1..(FieldElementsPerBlob * FieldElementSize) |->
                        IF i = 1 THEN data[Len(data)] ELSE 0]

C3_Witness ==
    /\ cpc = "encoded"
    /\ Len(data) = OneBlobCapacity + 1
    /\ data[Len(data)] # 0
    /\ Len(blobs) = 2

\* C4: the empty input is encoded into exactly one blob, all of whose bytes
\* are zero, and an all-zero blob is decoded into the empty sequence.
C4_EmptyInput ==
    /\ (cpc # "input" /\ data = <<>>) =>
          /\ Len(blobs) = 1
          /\ AllZero(Flatten(blobs[1]))
    /\ cpc = "decoded" =>
          \A k \in 1..Len(blobs) :
              AllZero(Flatten(blobs[k])) => decoded[k] = <<>>

C4_Witness ==
    /\ cpc = "decoded"
    /\ data = <<>>
    /\ Len(blobs) = 1
    /\ decoded = << <<>> >>

(***************************************************************************)
(* Properties of the resolver (checked under SpecResolve)                  *)
(***************************************************************************)
\* the string form of a multiaddr: /protocol/value for each component
RECURSIVE MultiaddrString(_)
MultiaddrString(m) ==
    IF Len(m) = 0 THEN ""
    ELSE "/" \o m[1].proto \o "/" \o m[1].value \o MultiaddrString(Tail(m))

\* the address string is a multiaddr whose last component is a fingerprint
EmbedsPeerID(s) ==
    /\ NewMultiaddr(s).err = NoErr
    /\ LET fields == StrSplit(TrimRight(s, "/"), "/")
       IN  /\ Len(fields) >= 3
           /\ fields[Len(fields) - 1] = "p2p"

\* C9: when the address given to getMultiaddr already embeds a fingerprint,
\* getMultiaddr returns that address (every component of it, in order,
\* nothing added) without an error, and no connection is attempted.
C9_EmbeddedIdentityReturnedUnchanged ==
    EmbedsPeerID(addr) =>
        /\ connects = <<>>
        /\ probe = None
        /\ rpc # "probing"
        /\ rpc = "done" =>
              /\ resolved.err = NoErr
              /\ resolved.multiaddr # None
              /\ MultiaddrString(resolved.multiaddr[1]) = TrimRight(addr, "/")

C9_Witness ==
    /\ rpc = "done"
    /\ addr = "/ip4/10.0.0.1/p2p/" \o RemotePeerID
    /\ resolved.err = NoErr
    /\ resolved.multiaddr # None

\* C10: if the probe connection with the wrong fingerprint succeeds,
\* getMultiaddr returns an error and no address.
C10_ProbeSuccessIsAnError ==
    (rpc = "done" /\ probe = Some(NoErr)) =>
        /\ resolved.multiaddr = None
        /\ resolved.err = NewError("errorString", "unexpected successful connection")

C10_Witness ==
    /\ rpc = "done"
    /\ probe = Some(NoErr)
    /\ Len(connects) = 1
    /\ connects[1].ID = IncorrectPeerID
    /\ resolved.err # NoErr

\* the text after the last space of s (all of s when it has no space)
LastToken(s) ==
    LET spaces == {i \in 1..Len(s) : SubSeq(s, i, i) = " "}
        last   == IF spaces = {} THEN 0
                  ELSE CHOOSE i \in spaces : \A j \in spaces : j <= i
    IN  IF last = Len(s) THEN "" ELSE SubSeq(s, last + 1, Len(s))

\* the probe returned an error that reports the remote peer's fingerprint
ProbeMismatch ==
    /\ probe # None
    /\ probe[1] # NoErr
    /\ Contains(probe[1].text, "but remote key matches")

\* C11: when the probe fails with an error whose text has the mismatch
\* phrase, the last space-delimited token of the text is taken as the remote
\* fingerprint: getMultiaddr returns without error exactly when that token is
\* a fingerprint, and then the address is the given one with /p2p/<token>
\* appended. No address returned without error lacks a fingerprint.
C11_LastTokenEmbedded ==
    /\ (rpc = "done" /\ ProbeMismatch) =>
          LET token == LastToken(probe[1].text)
              bare  == NewMultiaddr(addr).multiaddr[1]
          IN  IF ValidValue("p2p", token)
              THEN /\ resolved.err = NoErr
                   /\ resolved.multiaddr =
                         Some(Append(bare, [proto |-> "p2p", value |-> token]))
              ELSE /\ resolved.err # NoErr
                   /\ resolved.multiaddr = None
    /\ (rpc = "done" /\ resolved.err = NoErr) =>
          /\ resolved.multiaddr # None
          /\ LET m == resolved.multiaddr[1]
             IN  Len(m) > 0 /\ m[Len(m)].proto = "p2p" /\ m[Len(m)].value # ""

C11_Witness ==
    /\ rpc = "done"
    /\ ProbeMismatch
    /\ addr = "/ip4/10.0.0.1"
    /\ Len(probe[1].text) > Len(RemotePeerID)
    /\ LastToken(probe[1].text) = RemotePeerID
    /\ resolved.multiaddr = Some(<<[proto |-> "ip4", value |-> "10.0.0.1"],
                                   [proto |-> "p2p", value |-> RemotePeerID]>>)

\* C12: when the probe fails with an error whose text lacks the mismatch
\* phrase, getMultiaddr returns that very error and no address, and h.Connect
\* has been called once only.
C12_OtherProbeErrorReturnedUnchanged ==
    (rpc = "done" /\ probe # None /\ probe[1] # NoErr
       /\ ~Contains(probe[1].text, "but remote key matches")) =>
        /\ resolved.multiaddr = None
        /\ resolved.err = probe[1]
        /\ Len(connects) = 1

C12_Witness ==
    /\ rpc = "done"
    /\ probe = Some(NewError("dial", "connection refused"))
    /\ resolved = [multiaddr |-> None, err |-> NewError("dial", "connection refused")]
    /\ Len(connects) = 1

(***************************************************************************)
(* Properties of the request client (checked under SpecRequest)            *)
(***************************************************************************)
Finished == spc \in {"done", "failed"}

ChunkLen == ContextLen + 2

\* the response is whole success chunks and nothing else
WellFormedSuccess(resp) ==
    /\ Len(resp) % ChunkLen = 0
    /\ \A i \in 1..Len(resp) :
          LET r == (i - 1) % ChunkLen
          IN  /\ r = 0 => (resp[i].t = "status" /\ resp[i].v = 0)
              /\ r \in 1..ContextLen => resp[i].t = "ctx"
              /\ r = ContextLen + 1 => resp[i].t = "sidecar"

\* the payloads of such a response, in the order the peer wrote them
PayloadsOf(resp) == [k \in 1..(Len(resp) \div ChunkLen) |-> resp[k * ChunkLen].v]

NoTransportFailure == \A k \in 1..Len(chunks) : chunks[k].err # ErrTransport

\* C5: if the request was sent and the response is N >= 0 whole success
\* chunks followed by the end of the stream, the call succeeds and returns
\* the N payloads in the order the peer wrote them.
C5_WholeChunksInOrder ==
    (Finished /\ stream.writeClosed /\ WellFormedSuccess(response) /\ NoTransportFailure)
        => /\ spc = "done"
           /\ ret.err = NoErr
           /\ ret.sidecars = PayloadsOf(response)

\* what does hold of the source: the same, when every read of the context
\* field returned all of its bytes
WholeChunksInOrderWhenContextReadsAreFull ==
    (/\ Finished /\ stream.writeClosed /\ WellFormedSuccess(response)
     /\ NoTransportFailure
     /\ \A k \in 1..Len(chunks) : chunks[k].ctxRead \in {0, ContextLen})
        => /\ spc = "done"
           /\ ret.err = NoErr
           /\ ret.sidecars = PayloadsOf(response)

\* C6: when the chunk a read starts at has a non-zero status byte followed
\* by an error message, the call fails with an error that wraps
\* errors.New(message) and whose text begins with the message, returns no
\* sidecars, and consumes nothing after the message: that read is the last.
C6_RemoteErrorAbortsCall ==
    \A k \in 1..Len(chunks) :
        LET c == chunks[k]
        IN  (/\ c.from + 2 <= Len(response)
             /\ response[c.from + 1].t = "status"
             /\ response[c.from + 1].v # 0
             /\ response[c.from + 2].t = "errmsg"
             /\ c.err # ErrTransport)
            => LET msg == response[c.from + 2].v
               IN  /\ k = Len(chunks)
                   /\ spc = "failed"
                   /\ ret.sidecars = <<>>
                   /\ ErrorsIs(ret.err, NewError("errorString", msg))
                   /\ SubSeq(ret.err.text, 1, Len(msg)) = msg
                   /\ pos = c.from + 2

C6_Witness ==
    /\ spc = "failed"
    /\ Len(chunks) = 2
    /\ chunks[2].at = "remote"
    /\ blobSidecars = <<"s1">>
    /\ ret.sidecars = <<>>
    /\ ret.err.text = "EOF: readChunkedBlobsSidecar"
    /\ pos < Len(response)

\* C7: a call whose last chunk read failed, other than with the end of the
\* stream where the status byte was expected, has failed and returned no
\* sidecars.
C7_OtherFailuresFailTheCall ==
    (Finished /\ Len(chunks) > 0) =>
        LET c == chunks[Len(chunks)]
        IN  (c.err # NoErr /\ ~(c.at = "status" /\ c.err = ErrEOF))
                => (spc = "failed" /\ ret.sidecars = <<>>)

\* C8: once the stream was opened, it is closed when the call has returned,
\* and Close is the last call made on it.
C8_StreamClosedOnEveryExit ==
    (Finished /\ stream.opened) =>
        /\ stream.closed
        /\ ops[Len(ops)] = "Close"

C8_Witness ==
    /\ spc = "failed"
    /\ stream.opened
    /\ stream.reset
    /\ stream.closed
    /\ ret.err = ErrTransport

(***************************************************************************)
(* Properties of DownloadApp (checked under SpecDownload)                  *)
(***************************************************************************)
\* the step of DownloadApp from the return of the request to its own return
ScanStep == dpc = "received" /\ dpc' = "done"

\* the sidecars the scan reaches: those with no sidecar of another slot at or
\* before them
BeforeMismatch ==
    {i \in 1..Len(received) : \A j \in 1..i : received[j].BeaconBlockSlot = slot}

\* those of them that carry blobs
Contributing == {i \in BeforeMismatch : Len(received[i].Blobs) > 0}

FirstContributing == CHOOSE i \in Contributing : \A j \in Contributing : i <= j

\* the payload bytes of a blob's bytes: each field element without its
\* reserved byte
PayloadBytes(blob) ==
    Concat([f \in 1..FieldElementsPerBlob |->
               SubSeq(blob, (f - 1) * FieldElementSize + 1,
                            (f - 1) * FieldElementSize + UsableBytes)])

\* C13: when the first sidecar returned has the slot asked for and two blobs,
\* neither of them all zero, the bytes written to stdout are the payload
\* bytes of the first blob, all of them, followed by the payload bytes of the
\* second without its trailing zeros: no reserved byte is written.
C13_TwoBlobsPayloadConcatenated ==
    [][(/\ ScanStep
        /\ Len(received) >= 1
        /\ received[1].BeaconBlockSlot = slot
        /\ Len(received[1].Blobs) = 2
        /\ ~AllZero(received[1].Blobs[1])
        /\ ~AllZero(received[1].Blobs[2]))
       => stdout' = PayloadBytes(received[1].Blobs[1])
                    \o TrimTrailingZeros(PayloadBytes(received[1].Blobs[2]))]_vars

\* C14: the scan goes through the sidecars in order up to the first one of
\* another slot; stdout receives the blobs of one sidecar only, the first of
\* the scanned ones with a blob list that is not empty, each blob through
\* DecodeBlob, in order; nothing of a later sidecar is written.
C14_OutputFromFirstContributingSidecar ==
    [][ScanStep =>
          stdout' = IF Contributing = {} THEN <<>>
                    ELSE LET bs == received[FirstContributing].Blobs
                         IN  Concat([k \in 1..Len(bs) |-> DecodeBlob(bs[k])])]_vars

C14_Witness ==
    /\ dpc = "done"
    /\ Len(received) = 3
    /\ \A i \in 1..3 : received[i].BeaconBlockSlot = slot
    /\ received[1].Blobs = <<>>
    /\ Len(received[2].Blobs) = 2
    /\ Len(received[3].Blobs) = 1
    /\ stdout = DecodeBlob(received[2].Blobs[1]) \o DecodeBlob(received[2].Blobs[2])
    /\ stdout # <<>>

\* C15: once the request has returned sidecars, DownloadApp returns the
\* no-blobs-found error exactly when no scanned sidecar carries blobs (no
\* sidecar at all, or only empty blob lists before the first sidecar of
\* another slot, whatever comes after it), and returns nil otherwise.
C15_NoBlobsErrorIffNoneContributes ==
    [][ScanStep =>
          dret' = IF Contributing = {}
                  THEN NewError("errorString",
                                "no blobs found in requested slots, sidecar count: "
                                \o ToString(Len(received)))
                  ELSE NoErr]_vars

C15_Witness ==
    /\ dpc = "done"
    /\ Len(received) = 2
    /\ received[1].BeaconBlockSlot # slot
    /\ received[2].BeaconBlockSlot = slot
    /\ Len(received[2].Blobs) > 0
    /\ dret = NewError("errorString",
                       "no blobs found in requested slots, sidecar count: 2")
    /\ stdout = <<>>

(***************************************************************************)
(* Properties of the inbound handlers (checked under SpecServe and         *)
(* SpecInbound)                                                            *)
(***************************************************************************)
\* the calls on the stream a handler makes, out of all the calls in a log
RECURSIVE HandlerOps(_)
HandlerOps(log) ==
    IF Len(log) = 0 THEN <<>>
    ELSE IF Head(log) \in {"Write", "EncodeWithMaxLength", "Close"}
         THEN <<Head(log)>> \o HandlerOps(Tail(log))
         ELSE HandlerOps(Tail(log))

\* a handler's failure is over: it was caught and the stream was reset
Contained(s) ==
    (s.ipc = "done" /\ s.failed # "") => (s.reset /\ ~s.panicking)

\* C16: while the outbound request runs interleaved with the handlers of the
\* inbound streams, a failure in a handler (the request does not decode, a
\* write fails, a call panics) is caught in that invocation and ends with
\* that stream reset; the process goes on; a step of a handler changes its
\* own stream's record and nothing else, in particular nothing of the
\* outbound request, whose result is the one the response gives.
C16_HandlerFailuresContained ==
    /\ [](alive /\ \A i \in 1..Len(inbound) : Contained(inbound[i]))
    /\ []WholeChunksInOrderWhenContextReadsAreFull
    /\ [][inbound' # inbound =>
            /\ UNCHANGED requestVars
            /\ Len(inbound') >= Len(inbound)
            /\ \E i \in 1..Len(inbound') :
                  \A j \in 1..Len(inbound) : j # i => inbound'[j] = inbound[j]]_vars

C16_Witness ==
    /\ alive
    /\ spc = "reading"
    /\ Len(blobSidecars) = 1
    /\ Len(inbound) = 2
    /\ inbound[1].ipc = "done"
    /\ inbound[1].failed = "panic"
    /\ inbound[1].reset
    /\ inbound[2].ipc = "value"
    /\ ~inbound[2].reset

ControlStreams == {i \in 1..Len(inbound) : inbound[i].topic \in
                      {ControlTopics[k] : k \in 1..Len(ControlTopics)}}

\* the value the handler of a control topic writes: the sequence number 0,
\* as a metadata message on the metadata topics
SynthesizedValue(topic) ==
    IF topic \in {"RPCMetaDataTopicV1", "RPCMetaDataTopicV2"}
    THEN [t |-> "MetaDataV1", v |-> 0]
    ELSE [t |-> "SSZUint64", v |-> 0]

\* one status byte 0x00, the value, the close, in this order
StatusValueClose(s) ==
    /\ s.written = <<Status(0), SynthesizedValue(s.topic)>>
    /\ HandlerOps(s.log) = <<"Write", "EncodeWithMaxLength", "Close">>
    /\ s.closed

\* C17 as stated: on each control topic, whether the peer sent a request
\* payload or not, the handler (no write failing, nothing panicking) writes
\* one success status byte, then the topic's value with sequence number 0,
\* then closes the stream.
C17_StatusValueCloseInEitherCase ==
    \A i \in ControlStreams :
        (inbound[i].ipc = "done" /\ inbound[i].failed \notin {"write", "panic"})
            => StatusValueClose(inbound[i])

\* C17 as the code has it: on the metadata topics no request is read; on ping
\* and goodbye the request is decoded first and, when it does not decode
\* (absent or malformed), nothing is written and the stream is reset without
\* a close.  In the other cases, when no write fails and nothing panics, one
\* success status byte is written, then the topic's value with sequence
\* number 0, then the stream is closed.  On every path there is at most one
\* status byte, the value comes after it, and no write follows the close.
C17_StatusValueCloseWhenRequestDecodes ==
    \A i \in ControlStreams :
        LET s == inbound[i]
            meta == s.topic \in {"RPCMetaDataTopicV1", "RPCMetaDataTopicV2"}
            hops == HandlerOps(s.log)
        IN  /\ s.written \in { <<>>, <<Status(0)>>,
                               <<Status(0), SynthesizedValue(s.topic)>>,
                               <<Status(0), Truncated>> }
            /\ hops \in { <<>>, <<"Write">>, <<"Write", "EncodeWithMaxLength">>,
                         <<"Close">>, <<"Write", "Close">>,
                         <<"Write", "EncodeWithMaxLength", "Close">> }
            /\ meta => \A k \in 1..Len(s.log) : s.log[k] # "DecodeWithMaxLength"
            /\ (~meta /\ s.ipc # "accepted") => s.log[1] = "DecodeWithMaxLength"
            /\ (~meta /\ s.req # "valid") =>
                  /\ s.written = <<>>
                  /\ hops = <<>>
                  /\ s.ipc = "done" => (s.reset /\ ~s.closed)
            /\ (s.ipc = "done" /\ s.failed = "") =>
                  /\ meta \/ s.req = "valid"
                  /\ StatusValueClose(s)

C17_Witness ==
    /\ Len(inbound) = 1
    /\ inbound[1].topic = "RPCGoodByeTopicV1"
    /\ inbound[1].req = "valid"
    /\ inbound[1].ipc = "done"
    /\ inbound[1].written = <<Status(0), [t |-> "SSZUint64", v |-> 0]>>
    /\ inbound[1].log = <<"DecodeWithMaxLength", "Write", "EncodeWithMaxLength",
                          "Close", "Reset">>

\* C18: on the topics of the bulk data (blocks by range v1 and v2, sidecars
\* by range) nothing is ever written to the inbound stream and the handler
\* makes no call on it; every such stream ends reset by the stream function,
\* never closed.
C18_BulkTopicsWriteNothingAndEndReset ==
    \A i \in 1..Len(inbound) :
        inbound[i].topic \in {BulkTopics[k] : k \in 1..Len(BulkTopics)} =>
            /\ inbound[i].written = <<>>
            /\ HandlerOps(inbound[i].log) = <<>>
            /\ ~inbound[i].closed
            /\ inbound[i].ipc = "done" =>
                  /\ inbound[i].reset
                  /\ inbound[i].log[Len(inbound[i].log)] = "Reset"

C18_Witness ==
    /\ Len(inbound) = 1
    /\ inbound[1].topic = "RPCBlobsSidecarsByRangeTopicV1"
    /\ inbound[1].req = "valid"
    /\ inbound[1].ipc = "done"
    /\ inbound[1].failed = ""
    /\ inbound[1].log = <<"DecodeWithMaxLength", "Reset">>
    /\ inbound[1].reset

CollectedBefore(k) == Cardinality({j \in 1..(k - 1) : chunks[j].err = NoErr})

\* every call of readStatusCodeNoDeadline comes right after a call that sets
\* the stream's read deadline
DeadlineSetBeforeLaterStatusReads ==
    \A k \in 1..Len(ops) :
        ops[k] = "readStatusCodeNoDeadline" =>
            k > 1 /\ ops[k - 1] = "SetStreamReadDeadline"

ReadOps == {"ReadStatusCode", "SetStreamReadDeadline", "readStatusCodeNoDeadline",
            "Read", "DecodeWithMaxLength"}

\* the call ended on a stream it had opened but not half-closed: the write of
\* the request or the half-close failed
WriteSideFailed == Finished /\ stream.opened /\ ~stream.writeClosed

\* C21: when the write of the encoded request or the half-close of the write
\* side fails, the stream is reset, the call returns an error and no
\* sidecars, and no response data has been read
C21_WriteFailureResetsAndReadsNothing ==
    WriteSideFailed =>
        /\ stream.reset
        /\ spc = "failed"
        /\ ret.err # NoErr
        /\ ret.sidecars = <<>>
        /\ pos = 0
        /\ chunks = <<>>
        /\ \A k \in 1..Len(ops) : ops[k] \notin ReadOps

\* the request was written and the half-close failed
C21_Witness ==
    /\ WriteSideFailed
    /\ stream.written = 1
    /\ ops = <<"NewStream", "EncodeWithMaxLength", "CloseWrite", "Reset", "Close">>


(***************************************************************************)
(* The order of the request's steps                                        *)
(***************************************************************************)

\* the positions of a call in the call log
Positions(op) == {k \in 1..Len(ops) : ops[k] = op}

\* the steps in the call log are in the order open, write, half-close, read
StepsInOrder ==
    /\ ops # <<>> => ops[1] = "NewStream"
    /\ Positions("NewStream") \subseteq {1}
    /\ Positions("EncodeWithMaxLength") \subseteq {2}
    /\ Positions("CloseWrite") \subseteq {3}
    /\ Positions("CloseWrite") # {} => Positions("EncodeWithMaxLength") # {}
    /\ \A k \in 1..Len(ops) :
          ops[k] \in ReadOps =>
             /\ k > 3
             /\ ops[3] = "CloseWrite"
             /\ stream.writeClosed
             /\ stream.written = 1
    /\ stream.written \in {0, 1}
    /\ stream.writeClosed => stream.written = 1

\* the two ends of a call
DoneOrFailed ==
    Finished =>
        \/ spc = "done" /\ ret.err = NoErr /\ ret.sidecars = blobSidecars
        \/ spc = "failed" /\ ret.err # NoErr /\ ret.sidecars = <<>>

\* C22: the stream is opened, then the request is written, then the write
\* side is half-closed, then the chunks are read; nothing of the response is
\* read before the half-close succeeded, nothing of the request is written
\* after it, one request is written on the stream, and the call always ends,
\* done with the sidecars or failed with an error and no sidecars
C22_StepsInOrderAndCallEnds ==
    /\ [](StepsInOrder /\ DoneOrFailed)
    /\ [][stream.written' # stream.written =>
             ~stream.writeClosed /\ ~stream'.writeClosed /\ pos = 0]_vars
    /\ [][pos' # pos => stream.writeClosed /\ stream.written = 1]_vars
    /\ <>Finished

\* a call that went through every step and returned two sidecars
C22_Witness ==
    /\ spc = "done"
    /\ Len(ret.sidecars) = 2
    /\ SubSeq(ops, 1, 4) = <<"NewStream", "EncodeWithMaxLength", "CloseWrite",
                             "ReadStatusCode">>
    /\ ops[Len(ops)] = "Close"


(***************************************************************************)
(* What the error of a chunk with a non-zero status code carries           *)
(***************************************************************************)

\* the chunk read from offset c.from is whole and has a non-zero status code
RemoteErrorChunk(c) ==
    /\ c.from + 2 <= Len(response)
    /\ response[c.from + 1].t = "status"
    /\ response[c.from + 1].v # 0
    /\ response[c.from + 2].t = "errmsg"
    /\ c.at = "remote"

\* what can be got out of an error value: its text, which holds the text of
\* every error it wraps; no error type of the program has a field for a code
Carries(err, str) == Contains(err.text, str)

\* C23: when a chunk has a non-zero status code, the error that is returned
\* carries the status code and the error message the peer sent
C23_RemoteErrorCarriesCodeAndMessage ==
    \A k \in 1..Len(chunks) :
        RemoteErrorChunk(chunks[k]) /\ Finished =>
            /\ Carries(ret.err, response[chunks[k].from + 2].v)
            /\ Carries(ret.err, ToString(response[chunks[k].from + 1].v))


(***************************************************************************)
(* The order of the steps of a download                                    *)
(***************************************************************************)

\* the calls of DownloadApp in the order of its statements
FullSteps ==
    <<"libp2p.New", "RemoveStreamHandler",
      "setHandler RPCPingTopicV1", "setHandler RPCGoodByeTopicV1",
      "setHandler RPCMetaDataTopicV1", "setHandler RPCMetaDataTopicV2",
      "setHandler RPCBlocksByRangeTopicV1", "setHandler RPCBlocksByRangeTopicV2",
      "setHandler RPCBlobsSidecarsByRangeTopicV1",
      "getMultiaddr", "AddrInfoFromP2pAddr", "Connect",
      "sendBlobsSidecarsByRangeRequest">>

\* the steps that open a connection: getMultiaddr makes the resolver's probe
ConnectingSteps == {"getMultiaddr", "Connect", "sendBlobsSidecarsByRangeRequest"}

HandlerSteps == {FullSteps[k] : k \in 3..9}

\* what DownloadApp appends to the error of a step
StepSuffix(step) ==
    CASE step = "getMultiaddr" -> ": unable to get multiaddr"
      [] step = "AddrInfoFromP2pAddr" -> ": unable to get addr info"
      [] step = "Connect" -> ": failed to connect"
      [] step = "sendBlobsSidecarsByRangeRequest" -> ": unable to send blobs RPC request"
      [] OTHER -> ""

EndsWith(str, suffix) ==
    /\ Len(str) >= Len(suffix)
    /\ SubSeq(str, Len(str) - Len(suffix) + 1, Len(str)) = suffix

\* the run returned the error of a step (the other error is the one of the
\* scan that found no blobs)
StepFailed ==
    /\ dret # NoErr
    /\ \A n \in 0..MaxSidecars : dret # ErrNoBlobs(n)

\* C24: every handler is installed before the first connection attempt, the
\* resolver's probe included; the connection is attempted only after the
\* address was resolved, the request sent only after the connection was
\* made; a step that fails ends the run with the error of that step, and no
\* later step is executed
C24_StepsInOrderAndFailureEndsRun ==
    /\ Len(dsteps) <= Len(FullSteps)
    /\ dsteps = SubSeq(FullSteps, 1, Len(dsteps))
    /\ \A k \in 1..Len(dsteps) :
          dsteps[k] \in ConnectingSteps =>
             HandlerSteps \subseteq {dsteps[j] : j \in 1..(k - 1)}
    /\ StepFailed =>
          /\ dpc = "done"
          /\ dsteps # <<>>
          /\ LET step == dsteps[Len(dsteps)]
             IN  /\ step \in {"libp2p.New"} \cup {FullSteps[10], FullSteps[11],
                                                   FullSteps[12], FullSteps[13]}
                 /\ IF step = "libp2p.New" THEN dret = ErrHost
                    ELSE /\ dret.cause # None
                         /\ dret.text = dret.cause[1].text \o StepSuffix(step)
                         /\ EndsWith(dret.text, StepSuffix(step))
    /\ (dpc = "done" /\ Len(dsteps) < Len(FullSteps)) => StepFailed
    /\ dpc \in {"connected", "received"} => dret = NoErr /\ host = "open"

\* the connection to the resolved peer failed: the run ended there
C24_Witness ==
    /\ dpc = "done"
    /\ dsteps = SubSeq(FullSteps, 1, 12)
    /\ dret = Wrap(ErrDial, ": failed to connect")
    /\ received = <<>>


(***************************************************************************)
(* The end of every inbound stream                                         *)
(***************************************************************************)

\* the path the stream function took for a stream it has returned from
PathOf(s) ==
    IF s.topic \notin RPCTopicMappings THEN "unrecognized topic"
    ELSE IF s.failed = "panic" THEN "panic"
    ELSE IF s.failed = "decode" THEN "decode failure"
    ELSE IF s.failed = "write" THEN "handler error"
    ELSE "response or passthrough"

\* C25: when the stream function returns, the stream has been closed or
\* reset, on every path: response written, unrecognized topic, request that
\* does not decode, handler error, panic; on an unrecognized topic nothing was
\* written to the stream
C25_InboundStreamClosedOrResetOnReturn ==
    \A i \in 1..Len(inbound) :
        LET s == inbound[i]
        IN  s.ipc = "done" =>
               /\ s.closed \/ s.reset
               /\ ~s.panicking
               /\ PathOf(s) = "unrecognized topic" =>
                     /\ s.written = <<>>
                     /\ s.log = <<"Reset">>

\* a stream on a topic without base message: the function returned at once
C25_Witness ==
    \E i \in 1..Len(inbound) :
        /\ inbound[i].ipc = "done"
        /\ PathOf(inbound[i]) = "unrecognized topic"
        /\ inbound[i].reset
        /\ ~inbound[i].closed

\* the other paths are taken as well
C25_PathsTaken(p) ==
    \E i \in 1..Len(inbound) : inbound[i].ipc = "done" /\ PathOf(inbound[i]) = p


(***************************************************************************)
(* The context field of a success chunk                                    *)
(***************************************************************************)

\* a whole success chunk lies at offset p of the response
SuccessChunkAt(resp, p) ==
    /\ p + ChunkLen <= Len(resp)
    /\ resp[p + 1].t = "status"
    /\ resp[p + 1].v = 0
    /\ \A j \in 1..ContextLen : resp[p + 1 + j].t = "ctx"
    /\ resp[p + ChunkLen].t = "sidecar"

\* the read of the chunk went as far as the decoding of the payload
PayloadDecodeStarted(c) == c.at \in {"none", "payload"} /\ c.err # ErrTransport

\* C26: for every success chunk, the four bytes of the context field are
\* consumed between the status byte and the decoding of the payload, however
\* the transport hands out the bytes, so the decoding starts at the first
\* byte of the payload
C26_FourContextBytesConsumed ==
    \A k \in 1..Len(chunks) :
        LET c == chunks[k]
        IN  SuccessChunkAt(response, c.from) /\ PayloadDecodeStarted(c) =>
               /\ c.ctxRead = ContextLen
               /\ response[c.from + 1 + c.ctxRead + 1].t = "sidecar"


(***************************************************************************)
(* The layout of the blobs EncodeBlobs returns                             *)
(***************************************************************************)

CeilDiv(a, b) == (a + b - 1) \div b

\* the strides of the input: UsableBytes bytes each, the last one the rest
NumStrides(d) == CeilDiv(Len(d), UsableBytes)

Stride(d, k) ==
    SubSeq(d, k * UsableBytes + 1, Min((k + 1) * UsableBytes, Len(d)))

\* a field element that holds the stride at its start and zeros after it
ElementOf(stride) ==
    [j \in 1..FieldElementSize |-> IF j <= Len(stride) THEN stride[j] ELSE 0]

\* C27: the k-th stride of the input (k from 0) is in field element k mod C
\* of blob k div C; there are max(1, ceil(ceil(len(d)/31)/C)) blobs; every
\* field element that received no stride is all zero
C27_StridesInOrder ==
    cpc # "input" =>
        LET n == NumStrides(data)
        IN  /\ Len(blobs) =
                 (IF CeilDiv(n, FieldElementsPerBlob) > 1
                  THEN CeilDiv(n, FieldElementsPerBlob) ELSE 1)
            /\ \A b \in 1..Len(blobs) : Len(blobs[b]) = FieldElementsPerBlob
            /\ \A k \in 0..(n - 1) :
                  blobs[(k \div FieldElementsPerBlob) + 1]
                       [(k % FieldElementsPerBlob) + 1] = ElementOf(Stride(data, k))
            /\ \A b \in 1..Len(blobs), f \in 1..FieldElementsPerBlob :
                  (b - 1) * FieldElementsPerBlob + (f - 1) >= n =>
                     blobs[b][f] = ZeroFieldElement

\* an input of three strides, the last of them short: two blobs, the second
\* with one element written and one left zero
C27_Witness ==
    /\ cpc = "encoded"
    /\ NumStrides(data) = FieldElementsPerBlob + 1
    /\ Len(data) % UsableBytes # 0
    /\ \A i \in 1..Len(data) : data[i] # 0
    /\ Len(blobs) = 2
    /\ blobs[2][1] # ZeroFieldElement
    /\ blobs[2][FieldElementsPerBlob] = ZeroFieldElement

\* C28: in every blob EncodeBlobs returns, the reserved byte of each field
\* element, the one after its usable bytes, is zero
C28_ReservedByteZero ==
    cpc # "input" =>
        \A b \in 1..Len(blobs) :
            \A f \in 1..Len(blobs[b]) :
                /\ Len(blobs[b][f]) = FieldElementSize
                /\ blobs[b][f][FieldElementSize] = 0

\* every usable byte of the first blob is written and not zero
C28_Witness ==
    /\ cpc = "encoded"
    /\ Len(data) >= OneBlobCapacity
    /\ \A i \in 1..Len(data) : data[i] # 0
    /\ \A f \in 1..FieldElementsPerBlob :
          /\ \A j \in 1..UsableBytes : blobs[1][f][j] # 0
          /\ blobs[1][f][FieldElementSize] = 0


(***************************************************************************)
(* Standard output of a run that fails                                     *)
(***************************************************************************)

\* C29: a run of DownloadApp that returns an error has written no byte to
\* stdout: bytes are written only after the address was resolved, the
\* connection made, the request answered and a sidecar with blobs found, and
\* nothing fails after the first byte was written
C29_NothingWrittenWhenRunFails ==
    /\ (dpc = "done" /\ dret # NoErr) => stdout = <<>>
    /\ stdout # <<>> =>
          /\ dsteps = FullSteps
          /\ Contributing # {}
          /\ dpc = "done"
          /\ dret = NoErr
          /\ host = "closed"
    /\ dpc # "done" => dret = NoErr /\ stdout = <<>>

\* every step succeeded and the peer's sidecars had blobs, but none that the
\* scan reaches: the run fails, with nothing written
C29_Witness ==
    /\ dpc = "done"
    /\ dsteps = FullSteps
    /\ \E i \in 1..Len(received) : Len(received[i].Blobs) > 0
    /\ Contributing = {}
    /\ dret = ErrNoBlobs(Len(received))
    /\ stdout = <<>>


(***************************************************************************)
(* The receipt polling of TxApp                                            *)
(***************************************************************************)

\* the errors the loop is left on: none, or a JSON unmarshal-type error
LeavesLoop(err) == err = NoErr \/ err.kind = "*json.UnmarshalTypeError"

Count(seq, x) == Cardinality({k \in 1..Len(seq) : seq[k] = x})

\* the loop was left: the last lookup is the one that left it, and no
\* earlier one could have
LoopLeftOnLastReceipt ==
    tpc \in {"exited", "returned"} =>
        /\ receipts # <<>>
        /\ LeavesLoop(receipts[Len(receipts)])
        /\ \A k \in 1..(Len(receipts) - 1) : ~LeavesLoop(receipts[k])

\* C30: once the transaction is sent, the polling loop is left only when a
\* receipt lookup returns no error or a JSON unmarshal-type error; after
\* not-found it sleeps one second and polls again, after any other error it
\* polls again at once; "Transaction included" is logged only after the loop
\* was left
C30_PollingLoop ==
    /\ [](/\ LoopLeftOnLastReceipt
          /\ receipts # <<>> => tlog[1] = "successfully sent transaction"
          /\ Count(tlog, "Transaction included") =
                (IF tpc = "returned" THEN 1 ELSE 0)
          /\ Count(tlog, "Sleep 1s") =
                Count(receipts, ErrNotFound) - (IF tpc = "sleep" THEN 1 ELSE 0)
          /\ tpc = "sleep" => receipts[Len(receipts)] = ErrNotFound)
    /\ [][(tpc = "poll" /\ tpc' = "exited") =>
             LeavesLoop(receipts'[Len(receipts')])]_vars
    /\ [][(tpc = "poll" /\ receipts' # receipts) =>
             LET err == receipts'[Len(receipts')]
             IN  /\ err = ErrNotFound => tpc' = "sleep"
                 /\ (err # ErrNotFound /\ ~LeavesLoop(err)) => tpc' = "poll"
                 /\ LeavesLoop(err) => tpc' = "exited"]_vars
    /\ [][tpc = "sleep" =>
             tpc' = "poll" /\ tlog' = Append(tlog, "Sleep 1s")]_vars
    /\ [][tlog' # tlog /\ Count(tlog', "Transaction included") > 0 =>
             tpc = "exited" /\ tpc' = "returned"]_vars

\* not found, then another error, then an unmarshal-type error: one sleep,
\* and the transaction reported as included
C30_Witness ==
    /\ tpc = "returned"
    /\ receipts = <<ErrNotFound, ErrRPC, ErrUnmarshalType>>
    /\ tlog = <<"successfully sent transaction", "Sleep 1s", "Transaction included">>

=============================================================================
